---- MODULE Spec2Model ----
(***************************************************************************)
(* Model of src/eda.py: the chunked sales loader (load_sales_chunked), the *)
(* derived metrics and the date filter of the dashboard script.            *)
(*                                                                         *)
(* One behaviour is one session of the script on a fixed sales.csv,        *)
(* product_hierarchy.csv and store_cities.csv.  Revenue values are         *)
(* integers, so that sums are exact.  Percentages of the progress bar are  *)
(* integers 0..100 (the code's 0.1 is 10, 0.9 is 90, 1.0 is 100).          *)
(***************************************************************************)
EXTENDS Integers, Sequences, FiniteSets, TLC

VARIABLES
    dataset,        \* rows of sales.csv after the header, in file order
    columns,        \* names of the columns sales.csv has
    chunksize,      \* the chunksize argument of load_sales_chunked
    products,       \* product_hierarchy.csv
    cities,         \* store_cities.csv
    header_chunk,   \* the reader yields one chunk of no rows for a file of no rows
    pc,             \* "loop" | "done" | "stopped"
    pos,            \* rows of sales.csv consumed by the reader
    chunk_count,
    chunk,          \* the loop variable: the chunk processed last
    agg_data,
    sample_rows,    \* the retained enriched chunks
    sample_df,
    progress,       \* values passed to progress_bar.progress, in order
    kpi,            \* module-level derived metrics
    date_range,     \* the date_input widget's value (<<NoDate, NoDate>>: untouched)
    filtered_data,
    runs,           \* executions of the script in this session
    reads,          \* scans of sales.csv started in this session
    first           \* what the first finished run produced

vars == <<dataset, columns, chunksize, products, cities, header_chunk, pc, pos,
          chunk_count, chunk, agg_data, sample_rows, sample_df, progress, kpi,
          date_range, filtered_data, runs, reads, first>>

inputs == <<dataset, columns, chunksize, products, cities, header_chunk>>

-----------------------------------------------------------------------------
(* Bounds of the model *)

MaxRows == 3
MaxLongRows == 11
MaxChunk == 3
MaxRuns == 2

(* Program constants *)

SampleChunks == 3
\* 50000 in the source; scaled down so that three chunks can exceed it
SampleCap == 4
ProgressStep == 10
ProgressCap == 90
ProgressDone == 100

(* Values *)

NaN == -1          \* a missing cell (and NaT for a date)
BadDate == -2      \* a date string that does not parse
NoDate == 0        \* None
ValidDates == {1, 2}

NaNName == <<>>                     \* NaN in a name column
NoColumn == <<"<no column>">>       \* the column does not exist
NotAvailable == <<"N/A">>

Min(a, b) == IF a <= b THEN a ELSE b

SetMin(S) == CHOOSE x \in S : \A y \in S : x <= y

SetMax(S) == CHOOSE x \in S : \A y \in S : y <= x

Range(s) == {s[i] : i \in 1..Len(s)}

Take(s, n) == SubSeq(s, 1, Min(n, Len(s)))

RECURSIVE Concat(_)
Concat(ss) == IF ss = <<>> THEN <<>> ELSE Head(ss) \o Concat(Tail(ss))

RECURSIVE SumRevenue(_)
SumRevenue(rows) ==
    IF rows = <<>> THEN 0 ELSE Head(rows).revenue + SumRevenue(Tail(rows))

-----------------------------------------------------------------------------
(* Inputs *)

AllColumns == {"date", "revenue", "product_id", "store_id"}

Schemas == {AllColumns} \cup {AllColumns \ {c} : c \in AllColumns}

Row(d, r, p, s, x) ==
    [date |-> d, revenue |-> r, product_id |-> p, store_id |-> s, extra |-> x]

RowKinds ==
    { Row(1, 1, 1, 1, 0),
      Row(BadDate, NaN, 3, 3, 0),
      Row(2, 1, 3, 3, 0),
      Row(1, 2, NaN, NaN, 0),
      Row(2, 1, 4, 1, 0) }

\* the rows of a long file: rows 3 and 4, 6 and 7, 9 and 10 are exact duplicates
LongRow(i) ==
    LET j == (2 * i) \div 3
    IN  Row(1 + (j % 2), 1 + (j % 2), 1 + (j % 3), 1 + (j % 3), j)

Datasets ==
    UNION {[1..n -> RowKinds] : n \in 0..MaxRows}
    \cup {[i \in 1..n |-> LongRow(i)] : n \in (MaxRows + 1)..MaxLongRows}

\* a column the file does not have holds nothing: its cells are never read
Project(row, cols) ==
    [date |-> IF "date" \in cols THEN row.date ELSE 0,
     revenue |-> IF "revenue" \in cols THEN row.revenue ELSE 0,
     product_id |-> IF "product_id" \in cols THEN row.product_id ELSE 0,
     store_id |-> IF "store_id" \in cols THEN row.store_id ELSE 0,
     extra |-> row.extra]

\* a lookup file: whether it has the explicit name column, the header of its
\* second column as characters, and its rows (id, second column)
ProductTable(named) ==
    [named |-> named,
     second_header |-> <<"n", "m">>,
     rows |-> << [id |-> 1, second |-> <<"A">>],
                 [id |-> 2, second |-> <<"A">>],
                 [id |-> 4, second |-> <<"Product", 3, "int">>] >>]

CityTable(named) ==
    [named |-> named,
     second_header |-> <<"t", "o", "w", "n">>,
     rows |-> << [id |-> 1, second |-> <<"X">>],
                 [id |-> 2, second |-> <<"Y">>] >>]

-----------------------------------------------------------------------------
(* load_sales_chunked: the lookups *)

Zip(ks, vs) == [i \in 1..Min(Len(ks), Len(vs)) |-> <<ks[i], vs[i]>>]

Ids(table) == [i \in 1..Len(table.rows) |-> table.rows[i].id]

\* DataFrame.get(name, default): the name column, or the default itself
NameColumn(table) ==
    IF table.named
    THEN [i \in 1..Len(table.rows) |-> table.rows[i].second]
    ELSE [i \in 1..Len(table.second_header) |-> <<table.second_header[i]>>]

\* dict(zip(ids, names)): a later pair replaces an earlier one of the same id
LookupDict(table) == Zip(Ids(table), NameColumn(table))

DictHas(d, k) == \E i \in 1..Len(d) : d[i][1] = k

DictGet(d, k, default) ==
    IF DictHas(d, k)
    THEN d[SetMax({i \in 1..Len(d) : d[i][1] = k})][2]
    ELSE default

products_dict == LookupDict(products)

cities_dict == LookupDict(cities)

\* f"Product {pid}": an id of a float column prints with its decimal point
Label(prefix, id) == <<prefix, id.v, IF id.float THEN "float" ELSE "int">>

ProductKey(id) == DictGet(products_dict, id.v, Label("Product", id))

CityKey(id) == DictGet(cities_dict, id.v, Label("Store", id))

-----------------------------------------------------------------------------
(* load_sales_chunked: one chunk *)

HasNext ==
    \/ pos < Len(dataset)
    \/ Len(dataset) = 0 /\ header_chunk /\ chunk_count = 0

\* the reader infers each chunk's column types on its own: an id column with
\* a missing cell in this chunk is a float column
ReadChunk(from, n) ==
    LET last == Min(from + n, Len(dataset))
        raw == [i \in 1..(last - from) |-> dataset[from + i]]
        pfloat == \E i \in 1..Len(raw) : raw[i].product_id = NaN
        sfloat == \E i \in 1..Len(raw) : raw[i].store_id = NaN
    IN  [i \in 1..Len(raw) |->
            [idx |-> from + i,
             date |-> raw[i].date,
             revenue |-> raw[i].revenue,
             product_id |-> [v |-> raw[i].product_id, float |-> pfloat],
             store_id |-> [v |-> raw[i].store_id, float |-> sfloat],
             extra |-> raw[i].extra]]

Cells(r) == [r EXCEPT !.idx = 0]

DropDuplicates(rows) ==
    SelectSeq(rows, LAMBDA r :
        \A j \in 1..Len(rows) : rows[j].idx < r.idx => Cells(rows[j]) # Cells(r))

Fill(v) == IF v = NaN THEN 0 ELSE v

FillNa(rows) ==
    [i \in 1..Len(rows) |->
        [rows[i] EXCEPT !.date = Fill(@), !.revenue = Fill(@),
                        !.product_id.v = Fill(@), !.store_id.v = Fill(@)]]

Clean(rows) == FillNa(DropDuplicates(rows))

\* pd.to_datetime(errors="coerce")
ToDatetime(v) == IF v \in ValidDates THEN v ELSE NaN

ParseDates(rows) ==
    IF "date" \in columns
    THEN [i \in 1..Len(rows) |-> [rows[i] EXCEPT !.date = ToDatetime(@)]]
    ELSE rows

ValidDateList(rows) ==
    LET kept == SelectSeq(rows, LAMBDA r : r.date # NaN)
    IN  [i \in 1..Len(kept) |-> kept[i].date]

ExtendDates(dates, rows) ==
    IF "date" \in columns THEN dates \o ValidDateList(rows) ELSE dates

ChunkRevenue(rows) == IF "revenue" \in columns THEN SumRevenue(rows) ELSE 0

MapHas(m, k) == \E i \in 1..Len(m) : m[i].k = k

MapGet(m, k, default) ==
    IF MapHas(m, k) THEN m[CHOOSE i \in 1..Len(m) : m[i].k = k].v ELSE default

MapSet(m, k, x) ==
    IF MapHas(m, k)
    THEN [i \in 1..Len(m) |-> IF m[i].k = k THEN [k |-> k, v |-> x] ELSE m[i]]
    ELSE Append(m, [k |-> k, v |-> x])

MapAdd_Overwrite(m, k, x) == MapSet(m, k, x)

\* m[name] = m.get(name, 0) + rev
MapAdd(m, k, x) == MapSet(m, k, MapGet(m, k, 0) + x)

\* chunk.groupby("product_id")["revenue"].sum().items(), in ascending id order
RECURSIVE AddProducts(_, _, _)
AddProducts(m, rows, ids) ==
    IF ids = {} THEN m
    ELSE LET v == SetMin({id.v : id \in ids})
             id == CHOOSE x \in ids : x.v = v
             rev == SumRevenue(SelectSeq(rows, LAMBDA r : r.product_id = id))
         IN  AddProducts(MapAdd(m, ProductKey(id), rev), rows, ids \ {id})

RECURSIVE AddCities(_, _, _)
AddCities(m, rows, ids) ==
    IF ids = {} THEN m
    ELSE LET v == SetMin({id.v : id \in ids})
             id == CHOOSE x \in ids : x.v = v
             rev == SumRevenue(SelectSeq(rows, LAMBDA r : r.store_id = id))
         IN  AddCities(MapAdd(m, CityKey(id), rev), rows, ids \ {id})

ProductRevenue(m, rows) ==
    IF "product_id" \in columns /\ "revenue" \in columns
    THEN AddProducts(m, rows, {rows[i].product_id : i \in 1..Len(rows)})
    ELSE m

CityRevenue(m, rows) ==
    IF "store_id" \in columns /\ "revenue" \in columns
    THEN AddCities(m, rows, {rows[i].store_id : i \in 1..Len(rows)})
    ELSE m

\* Series.map(dict): NaN for an id the dict does not have
MapName(d, id) == DictGet(d, id.v, NaNName)

Enrich(rows) ==
    [i \in 1..Len(rows) |->
        [idx |-> rows[i].idx, date |-> rows[i].date, revenue |-> rows[i].revenue,
         product_id |-> rows[i].product_id, store_id |-> rows[i].store_id,
         extra |-> rows[i].extra,
         product_name |-> IF "product_id" \in columns
                          THEN MapName(products_dict, rows[i].product_id)
                          ELSE NoColumn,
         city |-> IF "store_id" \in columns
                  THEN MapName(cities_dict, rows[i].store_id)
                  ELSE NoColumn]]

KeepsSample_OffByOne(kept) == Len(kept) <= SampleChunks

KeepsSample(kept) == Len(kept) < SampleChunks

Retain(kept, rows) == IF KeepsSample(kept) THEN Append(kept, Enrich(rows)) ELSE kept

ChunkProgress_NoCap(n) == n * ProgressStep

ChunkProgress(n) == Min(n * ProgressStep, ProgressCap)

EmptyAgg ==
    [total_revenue |-> 0, total_transactions |-> 0,
     min_date |-> NoDate, max_date |-> NoDate,
     product_revenue |-> <<>>, city_revenue |-> <<>>, dates |-> <<>>]

NoKpi ==
    [set |-> FALSE, total_revenue |-> 0, total_sales_count |-> 0,
     avg_ticket |-> <<0, 1>>, top_product |-> NotAvailable,
     min_date |-> NoDate, max_date |-> NoDate]

NoFirst == [set |-> FALSE, agg_data |-> EmptyAgg, sample_df |-> <<>>, kpi |-> NoKpi]

ProcessChunk ==
    /\ pc = "loop"
    /\ HasNext
    /\ LET rows == ParseDates(Clean(ReadChunk(pos, chunksize)))
       IN  /\ chunk' = rows
           /\ pos' = Min(pos + chunksize, Len(dataset))
           /\ chunk_count' = chunk_count + 1
           /\ progress' = Append(progress, ChunkProgress(chunk_count + 1))
           /\ agg_data' =
                [agg_data EXCEPT
                    !.dates = ExtendDates(@, rows),
                    !.total_revenue = @ + ChunkRevenue(rows),
                    !.total_transactions = @ + Len(rows),
                    !.product_revenue = ProductRevenue(@, rows),
                    !.city_revenue = CityRevenue(@, rows)]
           /\ sample_rows' = Retain(sample_rows, rows)
    /\ UNCHANGED <<inputs, pc, sample_df, kpi, date_range, filtered_data,
                   runs, reads, first>>

-----------------------------------------------------------------------------
(* load_sales_chunked: the end of the load; the derived metrics; the filter *)

DateRange(dates) ==
    IF dates # <<>>
    THEN [min_date |-> SetMin(Range(dates)), max_date |-> SetMax(Range(dates))]
    ELSE [min_date |-> NoDate, max_date |-> NoDate]

\* max(items, key=value): the first of the largest, in insertion order
TopProduct(m) ==
    IF m = <<>> THEN NotAvailable
    ELSE m[SetMin({i \in 1..Len(m) : \A j \in 1..Len(m) : m[j].v <= m[i].v})].k

AvgTicket(revenue, count) == IF count > 0 THEN <<revenue, count>> ELSE <<0, 1>>

Kpi(agg) ==
    [set |-> TRUE,
     total_revenue |-> agg.total_revenue,
     total_sales_count |-> agg.total_transactions,
     avg_ticket |-> AvgTicket(agg.total_revenue, agg.total_transactions),
     top_product |-> TopProduct(agg.product_revenue),
     min_date |-> agg.min_date, max_date |-> agg.max_date]

FilterAvailable(k) ==
    k.min_date # NoDate /\ k.max_date # NoDate /\ "date" \in columns

\* st.date_input: its default is (min_date, max_date)
Chosen(k, range) == IF range = <<NoDate, NoDate>> THEN <<k.min_date, k.max_date>> ELSE range

Filtered(sample, k, range) ==
    IF FilterAvailable(k)
    THEN SelectSeq(sample, LAMBDA r :
            r.date # NaN /\ r.date >= Chosen(k, range)[1] /\ r.date <= Chosen(k, range)[2])
    ELSE sample

Finish ==
    /\ pc = "loop"
    /\ ~HasNext
    /\ sample_rows # <<>>
    /\ LET agg == [agg_data EXCEPT
                      !.min_date = DateRange(agg_data.dates).min_date,
                      !.max_date = DateRange(agg_data.dates).max_date,
                      !.dates = <<>>]
           sample == Take(Concat(sample_rows), SampleCap)
       IN  /\ agg_data' = agg
           /\ sample_df' = sample
           /\ kpi' = Kpi(agg)
           /\ filtered_data' = Filtered(sample, Kpi(agg), date_range)
           /\ first' = IF first.set THEN first
                       ELSE [set |-> TRUE, agg_data |-> agg, sample_df |-> sample,
                             kpi |-> Kpi(agg)]
    /\ sample_rows' = <<>>
    /\ chunk' = <<>>
    /\ progress' = Append(progress, ProgressDone)
    /\ pc' = "done"
    /\ UNCHANGED <<inputs, pos, chunk_count, date_range, runs, reads>>

\* "No data found in sales.csv": st.stop() ends the script
StopEmpty ==
    /\ pc = "loop"
    /\ ~HasNext
    /\ sample_rows = <<>>
    /\ pc' = "stopped"
    /\ chunk' = <<>>
    /\ UNCHANGED <<inputs, pos, chunk_count, agg_data, sample_rows, sample_df,
                   progress, kpi, date_range, filtered_data, runs, reads, first>>

\* The user picks a range in the date_input widget.  A widget change makes
\* Streamlit execute the script again from its first line with the new widget
\* value: load_sales_chunked, which is not cached, starts a new scan.
ChooseDateRange ==
    /\ pc = "done"
    /\ runs < MaxRuns
    /\ FilterAvailable(kpi)
    /\ \E s \in kpi.min_date..kpi.max_date, e \in kpi.min_date..kpi.max_date :
          /\ s <= e
          /\ <<s, e>> # date_range
          /\ date_range' = <<s, e>>
    /\ runs' = runs + 1
    /\ reads' = reads + 1
    /\ pc' = "loop"
    /\ pos' = 0
    /\ chunk_count' = 0
    /\ chunk' = <<>>
    /\ agg_data' = EmptyAgg
    /\ sample_rows' = <<>>
    /\ sample_df' = <<>>
    /\ progress' = <<0>>
    /\ kpi' = NoKpi
    /\ filtered_data' = <<>>
    /\ UNCHANGED <<inputs, first>>

Init ==
    /\ columns \in Schemas
    /\ \E d \in Datasets : dataset = [i \in 1..Len(d) |-> Project(d[i], columns)]
    /\ chunksize \in 1..MaxChunk
    /\ \E n \in BOOLEAN : products = ProductTable(n)
    /\ \E n \in BOOLEAN : cities = CityTable(n)
    /\ header_chunk \in (IF Len(dataset) = 0 THEN BOOLEAN ELSE {FALSE})
    /\ pc = "loop"
    /\ pos = 0
    /\ chunk_count = 0
    /\ chunk = <<>>
    /\ agg_data = EmptyAgg
    /\ sample_rows = <<>>
    /\ sample_df = <<>>
    /\ progress = <<0>>
    /\ kpi = NoKpi
    /\ date_range = <<NoDate, NoDate>>
    /\ filtered_data = <<>>
    /\ runs = 1
    /\ reads = 1
    /\ first = NoFirst

\* one execution of the script
Next == ProcessChunk \/ Finish \/ StopEmpty

Spec == Init /\ [][Next]_vars

\* a session: the script's first execution and those the date filter causes
SessionNext == ProcessChunk \/ Finish \/ StopEmpty \/ ChooseDateRange

SessionSpec == Init /\ [][SessionNext]_vars

-----------------------------------------------------------------------------
(* Reference values the claims compare the load with *)

NumChunks ==
    IF Len(dataset) = 0 THEN (IF header_chunk THEN 1 ELSE 0)
    ELSE (Len(dataset) + chunksize - 1) \div chunksize

ChunkAt(c) == ReadChunk((c - 1) * chunksize, chunksize)

\* the cleaned chunks 1..k, concatenated in read order
CleanedStream(k) ==
    Concat([c \in 1..Min(k, NumChunks) |-> ParseDates(Clean(ChunkAt(c)))])

\* one scan of the whole file as a single chunk, with the same cleaning
SingleScan == ParseDates(Clean(ReadChunk(0, Len(dataset))))

RECURSIVE SumValues(_)
SumValues(m) == IF m = <<>> THEN 0 ELSE Head(m).v + SumValues(Tail(m))

NonDecreasing(s) == \A i, j \in 1..Len(s) : i <= j => s[i] <= s[j]

SalesProductIds == {dataset[i].product_id : i \in 1..Len(dataset)} \ {NaN}

SalesStoreIds == {dataset[i].store_id : i \in 1..Len(dataset)} \ {NaN}

DictNames(d) == {d[i][2] : i \in 1..Len(d)}

ProductRows(p) == SelectSeq(CleanedStream(NumChunks), LAMBDA r : r.product_id.v = p)

StoreRows(s) == SelectSeq(CleanedStream(NumChunks), LAMBDA r : r.store_id.v = s)

LastSecond(table, id) ==
    table.rows[SetMax({i \in 1..Len(table.rows) : table.rows[i].id = id})].second

-----------------------------------------------------------------------------
(* The claims *)

\* C1: chunk-size independence.  A finished load has the total_revenue and the
\* total_transactions that one scan of the whole dataset with the same
\* cleaning gives, whatever the chunk size (so any two chunk sizes agree).
C1_ChunkSizeIndependence ==
    pc = "done" =>
        /\ agg_data.total_transactions = Len(SingleScan)
        /\ agg_data.total_revenue = ChunkRevenue(SingleScan)

\* C2: conservation.  With a product_id and a revenue column, after every
\* processed chunk the values of product_revenue sum to total_revenue; with a
\* store_id and a revenue column the same holds of city_revenue.
C2_RevenueConservation ==
    /\ ("product_id" \in columns /\ "revenue" \in columns)
          => SumValues(agg_data.product_revenue) = agg_data.total_revenue
    /\ ("store_id" \in columns /\ "revenue" \in columns)
          => SumValues(agg_data.city_revenue) = agg_data.total_revenue

\* C2 witness: a finished load of several chunks in which product id 4 (named
\* "Product 3" by the lookup) and the unmapped id 3 share one key.
C2_Witness ==
    /\ pc = "done"
    /\ columns = AllColumns
    /\ products.named
    /\ chunk_count >= 2
    /\ {3, 4} \subseteq SalesProductIds
    /\ MapGet(agg_data.product_revenue, <<"Product", 3, "int">>, 0) = 2
    /\ agg_data.total_revenue > 2

\* C3 as stated: after a successful load the sample has min(rows of the first
\* three chunks, cap) rows, they are the first rows of the dataset in file
\* order, none is of a chunk after the third, and every chunk is counted.
C3_SamplePrefixOfDataset ==
    pc = "done" =>
        /\ Len(sample_df) = Min(Min(SampleChunks * chunksize, Len(dataset)), SampleCap)
        /\ \A i \in 1..Len(sample_df) : sample_df[i].idx = i
        /\ \A i \in 1..Len(sample_df) : sample_df[i].idx <= SampleChunks * chunksize
        /\ agg_data.total_transactions = Len(CleanedStream(NumChunks))

\* C3 amended: after a successful load the sample has min(rows of the first
\* three chunks after their cleaning, cap) rows, they are the first rows of
\* the cleaned stream (each chunk without its duplicates, in read order), none
\* is of a chunk after the third, and every chunk is counted in the aggregates.
C3_SamplePrefixOfCleaned ==
    pc = "done" =>
        LET whole == CleanedStream(NumChunks)
            n == Min(Len(CleanedStream(SampleChunks)), SampleCap)
        IN  /\ Len(sample_df) = n
            /\ \A i \in 1..Len(sample_df) : sample_df[i].idx = whole[i].idx
            /\ \A i \in 1..Len(sample_df) : sample_df[i].idx <= SampleChunks * chunksize
            /\ agg_data.total_transactions = Len(whole)

\* C3 witness: a finished load of more than three chunks whose first three
\* chunks lose a duplicate and still exceed the cap.
C3_Witness ==
    /\ pc = "done"
    /\ chunk_count > SampleChunks
    /\ Len(CleanedStream(SampleChunks)) > SampleCap
    /\ Len(CleanedStream(SampleChunks)) < SampleChunks * chunksize
    /\ Len(sample_df) = SampleCap

\* C4: the per-row data the load holds is bounded by one chunk plus the three
\* sample chunks, however many chunks the dataset has: the current chunk has
\* at most chunksize rows, the sample at most three chunks of rows, and no
\* other per-row collection of the accumulator outgrows that total.
C4_PerRowDataBounded ==
    /\ Len(chunk) <= chunksize
    /\ Len(Concat(sample_rows)) <= SampleChunks * chunksize
    /\ Len(sample_df) <= SampleChunks * chunksize
    /\ Len(agg_data.dates) <= (SampleChunks + 1) * chunksize

\* C5: a sales source of zero rows never ends in a finished load: no
\* aggregate result, no sample and no derived metric.
C5_EmptyDatasetFails ==
    Len(dataset) = 0 => (pc # "done" /\ ~kpi.set)

\* C6: a lookup table without its explicit name column maps every id of the
\* table to the second column's value in that id's row.
C6_PositionalFallback ==
    /\ ~products.named =>
          \A i \in 1..Len(products.rows) :
              DictGet(products_dict, products.rows[i].id, NaNName)
                  = LastSecond(products, products.rows[i].id)
    /\ ~cities.named =>
          \A i \in 1..Len(cities.rows) :
              DictGet(cities_dict, cities.rows[i].id, NaNName)
                  = LastSecond(cities, cities.rows[i].id)

\* C7: for every id of the sales data that the lookup does not have, one key
\* "Product {id}" (printed as an integer or as a float) holds, at the end, the
\* revenue of exactly the rows with that id, when no lookup name equals that
\* label; the same for store ids and "Store {id}".
C7_FallbackBucket ==
    pc = "done" =>
        /\ ("product_id" \in columns /\ "revenue" \in columns) =>
              \A p \in SalesProductIds :
                  (/\ ~DictHas(products_dict, p)
                   /\ \A t \in {"int", "float"} :
                         <<"Product", p, t>> \notin DictNames(products_dict))
                  => \E t \in {"int", "float"} :
                        MapGet(agg_data.product_revenue, <<"Product", p, t>>, 0)
                            = SumRevenue(ProductRows(p))
        /\ ("store_id" \in columns /\ "revenue" \in columns) =>
              \A s \in SalesStoreIds :
                  (/\ ~DictHas(cities_dict, s)
                   /\ \A t \in {"int", "float"} :
                         <<"Store", s, t>> \notin DictNames(cities_dict))
                  => \E t \in {"int", "float"} :
                        MapGet(agg_data.city_revenue, <<"Store", s, t>>, 0)
                            = SumRevenue(StoreRows(s))

ProgressShape ==
    /\ progress[1] = 0
    /\ NonDecreasing(progress)
    /\ pc = "loop" => \A i \in 1..Len(progress) : progress[i] <= ProgressCap
    /\ \A i \in 1..Len(progress) :
          progress[i] = ProgressDone => (pc = "done" /\ ~HasNext /\ i = Len(progress))

\* C8 as stated: the progress values start at 0, never decrease, stay at or
\* below 90 while the load is in its loop, 100 comes only after the last chunk,
\* and every load whose source is exhausted has emitted 100.
C8_ProgressOriginal ==
    /\ ProgressShape
    /\ pc \in {"done", "stopped"} => progress[Len(progress)] = ProgressDone

\* C8 amended: as stated, except that 100 is emitted in every load whose
\* source is exhausted after at least one chunk; a load whose source yields no
\* chunk stops having emitted 0 only.
C8_ProgressAmended ==
    /\ ProgressShape
    /\ pc = "done" => (chunk_count >= 1 /\ progress[Len(progress)] = ProgressDone)
    /\ pc = "stopped" => (chunk_count = 0 /\ progress = <<0>>)

\* C8 witness: a finished load of more chunks than the cap lets through.
C8_Witness ==
    /\ pc = "done"
    /\ chunk_count * ProgressStep > ProgressCap
    /\ progress[Len(progress)] = ProgressDone
    /\ progress[Len(progress) - 1] = ProgressCap

\* C9: choosing a date range leaves the aggregates, the derived metrics and
\* the sample as the initial load produced them, and sales.csv is not scanned
\* again.
C9_DateFilterOnlyView ==
    runs > 1 =>
        /\ reads = 1
        /\ pc = "done" =>
              /\ agg_data = first.agg_data
              /\ sample_df = first.sample_df
              /\ kpi = first.kpi

\* C10: every sample row carries, as product_name, the product_revenue key its
\* revenue was added under, and as city its city_revenue key.
C10_SampleNamesAreKeys ==
    (pc = "done" /\ "revenue" \in columns) =>
        \A i \in 1..Len(sample_df) :
            /\ "product_id" \in columns
                  => sample_df[i].product_name = ProductKey(sample_df[i].product_id)
            /\ "store_id" \in columns
                  => sample_df[i].city = CityKey(sample_df[i].store_id)

====
